---- MODULE Spec2Model ----
(***************************************************************************)
(* Model of src/scheduler/task.rs of eduOS-rs: the task control block with *)
(* its stack life cycle (Task::new_idle, Task::new, Drop for Task) and the *)
(* TaskQueue of shared handles (push, pop, is_empty, remove).              *)
(*                                                                         *)
(* A Task lives in a slot (the Rc<RefCell<Task>> allocation); a handle is  *)
(* the slot number, so Rc::ptr_eq is equality of slots.  The strong count  *)
(* of a slot is the number of handles held by callers (ext), by the queue  *)
(* and by a remove call in progress; the Task is dropped when it reaches   *)
(* zero.                                                                   *)
(***************************************************************************)
EXTENDS Integers, Sequences, FiniteSets, TLC

\* ---------------------------------------------------------------- bounds
MaxTasks == 3       \* slots: Tasks alive at the same time
MaxRegions == 3     \* stack regions the allocator can hand out
MaxPush == 3        \* calls of push in one behaviour
MaxFrame == 2       \* sizes of a saved frame, in units of 16 bytes

\* ------------------------------------------------------------- constants
NO_PRIORITIES == 32
REALTIME_PRIORITY == 0
HIGH_PRIORITY == 0
NORMAL_PRIORITY == 24
\* The lowest rank without the decrement.
LowPriorityNoDecrement == NO_PRIORITIES % 256
LOW_PRIORITY == (NO_PRIORITIES % 256) - 1

Null == 0           \* the null pointer: alloc's result on failure
BOOT_STACK == 1     \* address of the static boot stack
Regions == 2..(MaxRegions + 1)   \* addresses of the heap's stack regions

None == 0           \* Option::None of pop() and of cursor.current()
Slots == 1..MaxTasks
NoTask == [live |-> FALSE]

\* The execution context of a Task that has no initial frame and never ran:
\* entry is the function its initial frame leads to, control where the
\* Task's control is, inside the function it executes, entered how often
\* control was transferred into the start of a function, returned how often
\* control came back to the site that restored the context.
NoCtx == [entry |-> "none", control |-> "new", inside |-> "none",
          entered |-> 0, returned |-> 0]
Funcs == {"f", "g"}
FrameSizes == {16 * k : k \in 1..MaxFrame}

TaskStatus == {"TaskInvalid", "TaskReady", "TaskRunning", "TaskBlocked",
               "TaskFinished", "TaskIdle"}

\* arguments the callers pass
Ids == {1, 2}
NewArgs == {<<1, "TaskReady", NORMAL_PRIORITY>>,
            <<2, "TaskRunning", HIGH_PRIORITY>>}

VARIABLES
    tasks,       \* slot -> Task record, or NoTask
    ext,         \* slot -> number of handles held by callers
    queue,       \* TaskQueue.queue: sequence of handles
    heap,        \* regions the allocator has handed out and not got back
    pc,          \* "idle" | "remove" (inside TaskQueue::remove) | "fault"
    rmTask,      \* the handle passed to the last remove call
    rmPre,       \* the queue as that call found it
    cursor,      \* the cursor of remove (1 = front)
    iter,        \* parity of the loop evaluations remove has made without leaving
    lastPop,     \* result of the last operation if it was pop: "nocall" | None | handle
    allocLog,    \* allocator calls made by the last operation
    pushLog,     \* handles pushed, in order
    popLog,      \* handles popped, in order
    removeCalled,\* remove has been called
    lastOp,      \* the last operation called
    dropped,     \* the Task the last operation destroyed, or NoTask
    rmLog,       \* handles remove has taken out of the queue, in order
    ctx          \* slot -> execution context of the Task

vars == <<tasks, ext, queue, heap, pc, rmTask, rmPre, cursor, iter, lastPop,
          allocLog, pushLog, popLog, removeCalled, lastOp, dropped, rmLog,
          ctx>>

\* ------------------------------------------------------------ helpers
Range(s) == {s[i] : i \in 1..Len(s)}
Occ(q, t) == Cardinality({i \in 1..Len(q) : q[i] = t})
Live == {t \in Slots : tasks[t].live}
FreeSlots == Slots \ Live
MinOf(S) == CHOOSE x \in S : \A y \in S : x <= y

\* ------------------------------------------------------- LinkedList / Rc
push_front(q, t) == <<t>> \o q
push_back(q, t) == Append(q, t)
pop_front_value(q) == IF Len(q) = 0 THEN None ELSE Head(q)
pop_front_rest(q) == IF Len(q) = 0 THEN q ELSE Tail(q)
is_not_empty(q) == Len(q) # 0
is_empty(q) == Len(q) = 0
Current(q, c) == IF c \in 1..Len(q) THEN q[c] ELSE None
\* A removal that takes out the tail of the list, wherever the cursor is.
RemoveLast(q, c) == SubSeq(q, 1, Len(q) - 1)
RemoveCurrent(q, c) == SubSeq(q, 1, c - 1) \o SubSeq(q, c + 1, Len(q))
PtrEq(node, task) == node = task

\* Stack: STACK_SIZE bytes, 64-byte aligned. A stack of the model is the
\* number of its region; Address is where the region's buffer starts.
STACK_SIZE == 8192
Address(stack) == stack * STACK_SIZE

\* A top at the high end of the buffer, without the 16 bytes of headroom.
top_at_end(stack) == Address(stack) + STACK_SIZE
\* Stack::top: the address of buffer[STACK_SIZE - 16].
top(stack) == Address(stack) + (STACK_SIZE - 16)
\* Stack::bottom: the address of buffer[0].
bottom(stack) == Address(stack)

\* TaskFrame::create_stack_frame: the initial frame of size bytes is written
\* below the top of the stack and last_stack_pointer refers to it.
create_stack_frame(task, size) ==
    [task EXCEPT !.last_stack_pointer = top(task.stack) - size]
\* The first restore from the initial frame: control enters the entry
\* function at its start.
enter(c) ==
    [c EXCEPT !.control = "func", !.inside = c.entry, !.entered = c.entered + 1]
\* An entry function whose completion returns to the site that restored it,
\* leaving the Task as it was before its first run.
return_to_site(c) == [c EXCEPT !.control = "new", !.returned = 1]
\* The completion of the entry function: the Task leaves for good.
leave_task(c) == [c EXCEPT !.control = "finished"]

\* ------------------------------------------------------------ allocator
\* alloc(Layout::new::<Stack>()): a region not handed out, or null.
AllocResults(h) == (Regions \ h) \cup {Null}

\* dealloc(p, layout).  For p not currently allocated the behaviour is
\* undefined: the allocator may ignore the call, corrupt its bookkeeping so
\* that a block in use is handed out again, or the machine faults.
DeallocOutcomes(h, p) ==
    IF p \in h
    THEN {[heap |-> h \ {p}, fault |-> FALSE]}
    ELSE {[heap |-> h, fault |-> FALSE], [heap |-> h, fault |-> TRUE]}
         \cup {[heap |-> h \ {q}, fault |-> FALSE] : q \in h}

\* ----------------------------------------------------------------- Task
new_idle(id) ==
    [live |-> TRUE, id |-> id, prio |-> LOW_PRIORITY, status |-> "TaskIdle",
     last_stack_pointer |-> 0, stack |-> BOOT_STACK]

new(id, status, prio, stack) ==
    [live |-> TRUE, id |-> id, prio |-> prio, status |-> status,
     last_stack_pointer |-> 0, stack |-> stack]

AnyStack(stack) == TRUE
\* Drop for Task: the condition under which the stack is deallocated.
OwnsStack(stack) == stack # BOOT_STACK

\* Drop for Task: the allocator calls it makes and what they leave behind.
DropOutcomes(t) ==
    IF OwnsStack(tasks[t].stack)
    THEN {[heap |-> o.heap, fault |-> o.fault,
           log |-> <<[op |-> "dealloc", ptr |-> tasks[t].stack]>>] :
             o \in DeallocOutcomes(heap, tasks[t].stack)}
    ELSE {[heap |-> heap, fault |-> FALSE, log |-> <<>>]}

\* A handle to t has gone away, leaving ext1 and q1: the Task is dropped
\* when that was the last one.
\* A release that counts the callers' handles only, as if the queue held no
\* strong reference.
ReleasedCallersOnly(t, ext1, q1, nextpc) ==
    IF ext1[t] = 0
    THEN \E o \in DropOutcomes(t) :
            /\ tasks' = [tasks EXCEPT ![t] = NoTask]
            /\ dropped' = tasks[t]
            /\ heap' = o.heap
            /\ allocLog' = o.log
            /\ pc' = IF o.fault THEN "fault" ELSE nextpc
    ELSE /\ tasks' = tasks
         /\ dropped' = NoTask
         /\ heap' = heap
         /\ allocLog' = <<>>
         /\ pc' = nextpc

Released(t, ext1, q1, nextpc) ==
    IF ext1[t] + Occ(q1, t) = 0
    THEN \E o \in DropOutcomes(t) :
            /\ tasks' = [tasks EXCEPT ![t] = NoTask]
            /\ dropped' = tasks[t]
            /\ heap' = o.heap
            /\ allocLog' = o.log
            /\ pc' = IF o.fault THEN "fault" ELSE nextpc
    ELSE /\ tasks' = tasks
         /\ dropped' = NoTask
         /\ heap' = heap
         /\ allocLog' = <<>>
         /\ pc' = nextpc

\* ----------------------------------------------------------------- Init
\* After construction of the module: no Task, an empty queue.
Init ==
    /\ tasks = [s \in Slots |-> NoTask]
    /\ ext = [s \in Slots |-> 0]
    /\ queue = <<>>
    /\ heap = {}
    /\ pc = "idle"
    /\ rmTask = None
    /\ rmPre = <<>>
    /\ cursor = 1
    /\ iter = 0
    /\ lastPop = "nocall"
    /\ allocLog = <<>>
    /\ pushLog = <<>>
    /\ popLog = <<>>
    /\ removeCalled = FALSE
    /\ lastOp = "none"
    /\ dropped = NoTask
    /\ rmLog = <<>>
    /\ ctx = [s \in Slots |-> NoCtx]

\* The scheduler after it has constructed its Tasks with Task::new, every
\* allocation having succeeded, and before the first queue operation.  The
\* ids are 1, 1, 2, 2, ...: two Tasks of the same id, then others.
QueueInit ==
    /\ tasks = [s \in Slots |->
                  new((s + 1) \div 2, "TaskReady", NORMAL_PRIORITY,
                      IF s + 1 \in Regions THEN s + 1 ELSE Null)]
    /\ ext = [s \in Slots |-> 1]
    /\ queue = <<>>
    /\ heap = {s + 1 : s \in Slots} \cap Regions
    /\ pc = "idle"
    /\ rmTask = None
    /\ rmPre = <<>>
    /\ cursor = 1
    /\ iter = 0
    /\ lastPop = "nocall"
    /\ allocLog = <<>>
    /\ pushLog = <<>>
    /\ popLog = <<>>
    /\ removeCalled = FALSE
    /\ lastOp = "none"
    /\ dropped = NoTask
    /\ rmLog = <<>>
    /\ ctx = [s \in Slots |-> NoCtx]

\* -------------------------------------------------------------- actions
\* Task::new_idle(id); the caller holds the new Task.
NewIdle(id) ==
    /\ pc = "idle"
    /\ FreeSlots # {}
    /\ LET s == MinOf(FreeSlots) IN
         /\ tasks' = [tasks EXCEPT ![s] = new_idle(id)]
         /\ ext' = [ext EXCEPT ![s] = 1]
    /\ allocLog' = <<>>
    /\ lastPop' = "nocall"
    /\ rmTask' = None
    /\ rmPre' = <<>>
    /\ lastOp' = "new_idle"
    /\ dropped' = NoTask
    /\ UNCHANGED <<queue, heap, pc, cursor, iter, pushLog, popLog, removeCalled,
                   rmLog, ctx>>

\* Task::new(id, status, prio); the caller holds the new Task.
NewTask(id, status, prio) ==
    /\ pc = "idle"
    /\ FreeSlots # {}
    /\ \E stack \in AllocResults(heap) :
         LET s == MinOf(FreeSlots) IN
         /\ tasks' = [tasks EXCEPT ![s] = new(id, status, prio, stack)]
         /\ ext' = [ext EXCEPT ![s] = 1]
         /\ heap' = heap \cup ({stack} \ {Null})
         /\ allocLog' = <<[op |-> "alloc", ptr |-> stack]>>
    /\ lastPop' = "nocall"
    /\ rmTask' = None
    /\ rmPre' = <<>>
    /\ lastOp' = "new"
    /\ dropped' = NoTask
    /\ UNCHANGED <<queue, pc, cursor, iter, pushLog, popLog, removeCalled,
                   rmLog, ctx>>

\* A caller drops a handle it holds (or the Task it owns).
DropHandle(t) ==
    /\ pc = "idle"
    /\ t \in Live
    /\ ext[t] >= 1
    /\ ext' = [ext EXCEPT ![t] = @ - 1]
    /\ Released(t, ext', queue, "idle")
    /\ lastPop' = "nocall"
    /\ rmTask' = None
    /\ rmPre' = <<>>
    /\ lastOp' = "drop"
    /\ UNCHANGED <<queue, cursor, iter, pushLog, popLog, removeCalled,
                   rmLog, ctx>>

\* TaskQueue::push(task): the handle passed moves into the queue; with keep
\* the caller passes a clone and keeps its own.
Push(t, keep) ==
    /\ pc = "idle"
    /\ t \in Live
    /\ ext[t] >= 1
    /\ Len(pushLog) < MaxPush
    /\ queue' = push_back(queue, t)
    /\ ext' = IF keep THEN ext ELSE [ext EXCEPT ![t] = @ - 1]
    /\ pushLog' = Append(pushLog, t)
    /\ allocLog' = <<>>
    /\ lastPop' = "nocall"
    /\ rmTask' = None
    /\ rmPre' = <<>>
    /\ lastOp' = "push"
    /\ dropped' = NoTask
    /\ UNCHANGED <<tasks, heap, pc, cursor, iter, popLog, removeCalled,
                   rmLog, ctx>>

\* TaskQueue::pop(): the head's handle moves to the caller.
Pop ==
    /\ pc = "idle"
    /\ lastPop' = pop_front_value(queue)
    /\ queue' = pop_front_rest(queue)
    /\ IF lastPop' = None
       THEN UNCHANGED <<ext, popLog>>
       ELSE /\ ext' = [ext EXCEPT ![lastPop'] = @ + 1]
            /\ popLog' = Append(popLog, lastPop')
    /\ allocLog' = <<>>
    /\ rmTask' = None
    /\ rmPre' = <<>>
    /\ lastOp' = "pop"
    /\ dropped' = NoTask
    /\ UNCHANGED <<tasks, heap, pc, cursor, iter, pushLog, removeCalled,
                   rmLog, ctx>>

\* TaskQueue::remove(task), entry: the handle passed moves into the call
\* (with keep it is a clone) and the cursor is put on the front node.
RemoveCall(t, keep) ==
    /\ pc = "idle"
    /\ t \in Live
    /\ ext[t] >= 1
    /\ ext' = IF keep THEN ext ELSE [ext EXCEPT ![t] = @ - 1]
    /\ pc' = "remove"
    /\ rmTask' = t
    /\ rmPre' = queue
    /\ cursor' = 1
    /\ iter' = 0
    /\ removeCalled' = TRUE
    /\ allocLog' = <<>>
    /\ lastPop' = "nocall"
    /\ lastOp' = "remove"
    /\ dropped' = NoTask
    /\ UNCHANGED <<tasks, queue, heap, pushLog, popLog, rmLog, ctx>>

\* TaskQueue::remove(task), one evaluation of the while-let loop.
RemoveIter ==
    /\ pc = "remove"
    /\ LET node == Current(queue, cursor) IN
       IF node = None
       THEN \* the loop ends; `task` is dropped on return
            /\ Released(rmTask, ext, queue, "idle")
            /\ UNCHANGED <<queue, cursor, iter, rmLog>>
       ELSE IF PtrEq(node, rmTask)
       THEN \* remove_current(), break; the removed handle and `task` are dropped
            /\ queue' = RemoveCurrent(queue, cursor)
            /\ rmLog' = Append(rmLog, node)
            /\ Released(rmTask, ext, queue', "idle")
            /\ UNCHANGED <<cursor, iter>>
       ELSE \* next evaluation of the loop condition, the cursor where it was
            /\ iter' = 1 - iter
            /\ UNCHANGED <<tasks, queue, heap, pc, cursor, allocLog, dropped,
                           rmLog>>
    /\ UNCHANGED <<ext, rmTask, rmPre, lastPop, pushLog, popLog, removeCalled,
                   lastOp, ctx>>

\* create_stack_frame(func) on a Task that has not run yet.
CreateStackFrame(t, func, size) ==
    /\ pc = "idle"
    /\ t \in Live
    /\ tasks[t].stack # Null
    /\ ctx[t].control = "new"
    /\ tasks' = [tasks EXCEPT ![t] = create_stack_frame(@, size)]
    /\ ctx' = [ctx EXCEPT ![t] = [@ EXCEPT !.entry = func]]
    /\ UNCHANGED <<ext, queue, heap, pc, rmTask, rmPre, cursor, iter, lastPop,
                   allocLog, pushLog, popLog, removeCalled, lastOp, dropped,
                   rmLog>>

\* The context switch restores Task t from its last_stack_pointer: the first
\* time through the initial frame, later where the Task was switched away.
\* One execution context: no other Task is executing.
Restore(t) ==
    /\ pc = "idle"
    /\ t \in Live
    /\ tasks[t].last_stack_pointer # 0
    /\ tasks[t].status # "TaskFinished"
    /\ ctx[t].control \in {"new", "switched"}
    /\ ctx[t].entered < 2
    /\ \A u \in Slots : ctx[u].control # "func"
    /\ ctx' = [ctx EXCEPT ![t] = IF @.control = "new" THEN enter(@)
                                 ELSE [@ EXCEPT !.control = "func"]]
    /\ tasks' = [tasks EXCEPT ![t] = [@ EXCEPT !.status = "TaskRunning"]]
    /\ UNCHANGED <<ext, queue, heap, pc, rmTask, rmPre, cursor, iter, lastPop,
                   allocLog, pushLog, popLog, removeCalled, lastOp, dropped,
                   rmLog>>

\* The running Task yields or is preempted: its stack pointer is saved.
SwitchAway(t, size) ==
    /\ pc = "idle"
    /\ t \in Live
    /\ ctx[t].control = "func"
    /\ ctx' = [ctx EXCEPT ![t] = [@ EXCEPT !.control = "switched"]]
    /\ tasks' = [tasks EXCEPT ![t] =
                    [@ EXCEPT !.status = "TaskReady",
                              !.last_stack_pointer =
                                  top(tasks[t].stack) - size]]
    /\ UNCHANGED <<ext, queue, heap, pc, rmTask, rmPre, cursor, iter, lastPop,
                   allocLog, pushLog, popLog, removeCalled, lastOp, dropped,
                   rmLog>>

\* The entry function of the running Task completes.
EntryCompletes(t) ==
    /\ pc = "idle"
    /\ t \in Live
    /\ ctx[t].control = "func"
    /\ ctx' = [ctx EXCEPT ![t] = leave_task(@)]
    /\ tasks' = [tasks EXCEPT ![t] = [@ EXCEPT !.status = "TaskFinished"]]
    /\ UNCHANGED <<ext, queue, heap, pc, rmTask, rmPre, cursor, iter, lastPop,
                   allocLog, pushLog, popLog, removeCalled, lastOp, dropped,
                   rmLog>>

\* Construction and destruction of Tasks.
TaskNext ==
    \/ \E id \in Ids : NewIdle(id)
    \/ \E a \in NewArgs : NewTask(a[1], a[2], a[3])
    \/ \E t \in Slots : DropHandle(t)

\* The queue operations on Tasks that exist.
QueueNext ==
    \/ \E t \in Slots, keep \in BOOLEAN : Push(t, keep)
    \/ Pop
    \/ \E t \in Slots, keep \in BOOLEAN : RemoveCall(t, keep)
    \/ RemoveIter
    \/ \E t \in Slots : DropHandle(t)

\* The first run of a Task and its switches.
FrameNext ==
    \/ \E t \in Slots, func \in Funcs, size \in FrameSizes :
          CreateStackFrame(t, func, size)
    \/ \E t \in Slots : Restore(t)
    \/ \E t \in Slots, size \in FrameSizes : SwitchAway(t, size)
    \/ \E t \in Slots : EntryCompletes(t)

Next == TaskNext \/ QueueNext \/ FrameNext

Spec == Init /\ [][Next]_vars

\* Task::new_idle, Task::new and destruction alone.
TaskSpec == Init /\ [][TaskNext]_vars

\* The queue operations from a constructed population of Tasks.
QueueSpec == QueueInit /\ [][QueueNext]_vars

\* The processor keeps executing the loop of remove.
FairQueueSpec == QueueSpec /\ WF_vars(RemoveIter)

\* Execution-context initialisation and context switches over a constructed
\* population of Tasks.
FrameSpec == QueueInit /\ [][FrameNext]_vars

\* ------------------------------------------------------------ properties
IsPrefix(a, b) == Len(a) <= Len(b) /\ SubSeq(b, 1, Len(a)) = a

\* C1 (QueueSpec): FIFO law.  As long as remove has not been called, the
\* tasks pop has returned are the first tasks pushed, in push order, and once
\* the queue is drained they are exactly the pushed tasks in push order.
C1_FifoLaw ==
    ~removeCalled =>
        /\ IsPrefix(popLog, pushLog)
        /\ (is_empty(queue) => popLog = pushLog)

\* Three different tasks were pushed, all three came back in that order and
\* a fourth pop found the queue empty (Scenario A).
C1_Witness ==
    /\ ~removeCalled
    /\ Len(pushLog) = 3
    /\ Cardinality(Range(pushLog)) = 3
    /\ popLog = pushLog
    /\ lastPop = None
    /\ is_empty(queue)

\* C5 (QueueSpec): is_empty() is true exactly when the queue has no member;
\* pop returns None exactly when it is called on an empty queue, and then
\* leaves the queue empty.
C5_PopOnEmpty ==
    /\ [](is_empty(queue) <=> Range(queue) = {})
    /\ [][lastOp' = "pop" =>
            /\ (lastPop' = None <=> is_empty(queue))
            /\ (is_empty(queue) => queue' = <<>>)]_vars

\* pop was called on a queue that tasks had gone through and was empty
\* again: it returned None and the queue is still empty.
C5_Witness ==
    /\ lastOp = "pop"
    /\ lastPop = None
    /\ popLog # <<>>
    /\ is_empty(queue)

\* Pointers the last operation passed to dealloc.
DeallocPtrs ==
    {allocLog[i].ptr : i \in {j \in DOMAIN allocLog : allocLog[j].op = "dealloc"}}

\* Live Tasks made by Task::new (their stack is not the boot stack).
LiveOwned == {t \in Live : tasks[t].stack # BOOT_STACK}
BootBorrowers == {t \in Live : tasks[t].stack = BOOT_STACK}

FirstIndex(q, t) == MinOf({i \in 1..Len(q) : q[i] = t})
WithoutFirst(q, t) ==
    IF t \in Range(q) THEN RemoveCurrent(q, FirstIndex(q, t)) ELSE q
SameId(t, u) == tasks[t].id = tasks[u].id

\* C2 (FairQueueSpec): removal law.  A call remove(t) for a member t of the
\* queue, at whatever position, returns, and then t is no longer in the queue
\* and the other members are there in their original order.
C2_RemovalLaw ==
    (pc = "remove" /\ Occ(rmPre, rmTask) = 1)
        ~> (/\ pc # "remove"
            /\ rmTask \notin Range(queue)
            /\ queue = WithoutFirst(rmPre, rmTask))

\* C3 (FairQueueSpec): a call remove(t) for a task t that is not a member
\* returns without error and leaves the queue as it found it, whether the
\* queue is empty or not.
C3_RemoveAbsentNoOp ==
    (pc = "remove" /\ rmTask \notin Range(rmPre))
        ~> (pc = "idle" /\ queue = rmPre)

\* C4 (FairQueueSpec): every call of remove terminates.
C4_RemoveTerminates == (pc = "remove") ~> (pc # "remove")

\* C6 (FairQueueSpec): remove matches the instance, not the id.  Called with
\* a member while another member has the same id, it takes exactly that
\* instance out and the other stays; called with a non-member whose id a
\* member has, it takes nothing out.
C6_RemoveByIdentity ==
    /\ (/\ pc = "remove"
        /\ rmTask \in Range(rmPre)
        /\ \E u \in Range(rmPre) : u # rmTask /\ SameId(u, rmTask))
          ~> (pc # "remove" /\ queue = WithoutFirst(rmPre, rmTask))
    /\ (/\ pc = "remove"
        /\ rmTask \notin Range(rmPre)
        /\ \E u \in Range(rmPre) : SameId(u, rmTask))
          ~> (pc # "remove" /\ queue = rmPre)

\* C7 (TaskSpec): allocation symmetry.  Task::new makes exactly one
\* allocation of a stack region, the destruction of such a Task exactly one
\* deallocation, of that region, and the regions allocated and not freed are
\* as many as the live Tasks made by Task::new.
C7_AllocationSymmetry ==
    /\ (lastOp = "new" =>
          \E r \in Regions : allocLog = <<[op |-> "alloc", ptr |-> r]>>)
    /\ (dropped.live /\ dropped.stack # BOOT_STACK =>
          /\ dropped.stack \in Regions
          /\ allocLog = <<[op |-> "dealloc", ptr |-> dropped.stack]>>)
    /\ Cardinality(heap) = Cardinality(LiveOwned)

\* C8 (TaskSpec): boot-stack protection.  Task::new_idle and the destruction
\* of a Task that borrows the boot stack make no allocator call, and the boot
\* stack is never passed to dealloc nor part of the heap.
C8_BootStackProtected ==
    /\ (lastOp = "new_idle" => allocLog = <<>>)
    /\ (dropped.live /\ dropped.stack = BOOT_STACK => allocLog = <<>>)
    /\ BOOT_STACK \notin DeallocPtrs
    /\ BOOT_STACK \notin heap

\* An idle Task has just been destroyed, without any allocator call.
C8_Witness ==
    /\ lastOp = "drop"
    /\ dropped.live
    /\ dropped.stack = BOOT_STACK
    /\ dropped.status = "TaskIdle"
    /\ allocLog = <<>>

\* C9 (TaskSpec): allocation failure in Task::new is fatal.  No Task with a
\* null stack exists, and dealloc is only called on regions of the heap.
C9_AllocFailureFatal ==
    /\ \A t \in Live : tasks[t].stack # Null
    /\ DeallocPtrs \subseteq Regions

\* C10 (TaskSpec): at most one live Task refers to the boot stack, it has
\* status Idle, and no two other live Tasks have the same stack.
C10_StackOwnership ==
    /\ Cardinality(BootBorrowers) <= 1
    /\ \A t \in BootBorrowers : tasks[t].status = "TaskIdle"
    /\ \A t, u \in LiveOwned : t # u => tasks[t].stack # tasks[u].stack

\* C11 (TaskSpec): the stack a Task owns is never deallocated while the Task's
\* status is TaskRunning; whenever the destruction of a Task deallocates its
\* stack, the destroyed Task's status is something else.
C11_NoFreeWhileRunning ==
    (dropped.live /\ dropped.stack \in Regions /\ dropped.stack \in DeallocPtrs)
        => dropped.status # "TaskRunning"

\* C12 (QueueSpec): push, pop and remove change queue membership only; no
\* call of them destroys a Task or deallocates a stack, whatever handles
\* are outstanding.
C12_QueueOpsNeverFree ==
    lastOp \in {"push", "pop", "remove"} =>
        /\ dropped = NoTask
        /\ allocLog = <<>>
        /\ \A t \in Slots : tasks[t].live

\* The handles of Task t in existence: the callers', the queue's entries and
\* the one a remove call in progress holds.
Handles(t) ==
    ext[t] + Occ(queue, t) + (IF pc = "remove" /\ rmTask = t THEN 1 ELSE 0)

\* The slot of a destroyed Task; owned stacks identify their Task.
SlotOf(task) == CHOOSE t \in Slots : task.stack = t + 1

\* C13 (QueueSpec): a shared Task is destroyed exactly when its last handle
\* goes away: while a handle exists the Task lives and its stack is
\* allocated, a Task without handles is gone, and the destruction frees the
\* stack once, whatever the order of pop, remove and drop.
C13_SharedLifetime ==
    /\ \A t \in Slots :
          /\ Handles(t) > 0 <=> tasks[t].live
          /\ tasks[t].live /\ OwnsStack(tasks[t].stack) => tasks[t].stack \in heap
    /\ dropped.live =>
          /\ Handles(SlotOf(dropped)) = 0
          /\ allocLog = <<[op |-> "dealloc", ptr |-> dropped.stack]>>
          /\ dropped.stack \notin heap
    /\ Cardinality(heap) = Cardinality(LiveOwned)

\* A Task that was pushed twice, left the queue once by pop and once by
\* remove, and is destroyed when the caller drops the handle pop returned.
C13_Witness ==
    /\ lastOp = "drop"
    /\ dropped.live
    /\ SlotOf(dropped) \in Range(popLog)
    /\ SlotOf(dropped) \in Range(rmLog)
    /\ Occ(pushLog, SlotOf(dropped)) = 2

\* C14 (TaskSpec): the constructors' post-conditions. Task::new_idle(id)
\* yields a Task with that id, status TaskIdle, LOW_PRIORITY,
\* last_stack_pointer 0 and the boot stack; Task::new(id, status, prio) yields
\* a Task with exactly those three, last_stack_pointer 0 and a freshly
\* allocated stack that is not the boot stack.
C14_ConstructorPost ==
    [][LET s == MinOf(FreeSlots) IN
         /\ \A id \in Ids :
               NewIdle(id) =>
                 /\ tasks'[s].live
                 /\ tasks'[s].id = id
                 /\ tasks'[s].status = "TaskIdle"
                 /\ tasks'[s].prio = LOW_PRIORITY
                 /\ tasks'[s].last_stack_pointer = 0
                 /\ tasks'[s].stack = BOOT_STACK
         /\ \A a \in NewArgs :
               NewTask(a[1], a[2], a[3]) =>
                 /\ tasks'[s].live
                 /\ tasks'[s].id = a[1]
                 /\ tasks'[s].status = a[2]
                 /\ tasks'[s].prio = a[3]
                 /\ tasks'[s].last_stack_pointer = 0
                 /\ tasks'[s].stack # BOOT_STACK
                 /\ tasks'[s].stack \in Regions \ heap
                 /\ tasks'[s].stack \in heap'
      ]_vars

U8 == 0..255

\* C15 (TaskSpec): REALTIME_PRIORITY and HIGH_PRIORITY are both 0, below
\* NORMAL_PRIORITY (24), which is below LOW_PRIORITY; LOW_PRIORITY is the
\* number of priority levels minus 1, and the 8-bit cast and subtraction that
\* compute it do not wrap. Every Task carries a rank of that range, and an
\* idle Task ranks below (numerically above) every Task of normal or high
\* priority.
C15_PriorityOrdering ==
    /\ REALTIME_PRIORITY = 0
    /\ HIGH_PRIORITY = 0
    /\ HIGH_PRIORITY < NORMAL_PRIORITY
    /\ NORMAL_PRIORITY = 24
    /\ NORMAL_PRIORITY < LOW_PRIORITY
    /\ NO_PRIORITIES % 256 = NO_PRIORITIES
    /\ LOW_PRIORITY = NO_PRIORITIES - 1
    /\ LOW_PRIORITY \in U8
    /\ \A t \in Live :
          /\ tasks[t].prio \in U8
          /\ tasks[t].status = "TaskIdle" => tasks[t].prio = NO_PRIORITIES - 1
          /\ \A u \in Live :
                (tasks[t].status = "TaskIdle" /\ tasks[u].status # "TaskIdle")
                    => tasks[u].prio < tasks[t].prio

\* An idle Task alive together with a Task of normal and a Task of high
\* priority.
C15_Witness ==
    \E t, u, v \in Live :
        /\ tasks[t].status = "TaskIdle" /\ tasks[t].prio = LOW_PRIORITY
        /\ tasks[u].prio = NORMAL_PRIORITY
        /\ tasks[v].prio = HIGH_PRIORITY

\* The Stack instances in existence: the boot stack and the stacks live Tasks
\* own.
StackInstances == {BOOT_STACK} \cup ({tasks[t].stack : t \in Live} \ {Null})

\* C16 (TaskSpec): for every Stack instance top() - bottom() is
\* STACK_SIZE - 16, bottom() is the lowest address of the buffer and top()
\* lies 16 bytes below the high end, inside the buffer.
C16_StackArithmetic ==
    \A st \in StackInstances :
        /\ top(st) - bottom(st) = STACK_SIZE - 16
        /\ bottom(st) = Address(st)
        /\ bottom(st) % 64 = 0
        /\ top(st) = Address(st) + STACK_SIZE - 16
        /\ bottom(st) <= top(st)
        /\ top(st) < Address(st) + STACK_SIZE
        /\ \A other \in StackInstances \ {st} :
              top(st) < bottom(other) \/ top(other) < bottom(st)

\* The boot stack, borrowed by an idle Task, next to two allocated stacks.
C16_Witness ==
    /\ Cardinality(StackInstances) = 3
    /\ \E t \in Live : tasks[t].stack = BOOT_STACK
    /\ \E t \in Live : tasks[t].stack \in Regions
                        /\ top(tasks[t].stack) > top(BOOT_STACK)

\* C17 (FrameSpec): create_stack_frame(func) on a Task that has not run sets
\* last_stack_pointer to a frame on the Task's stack from which a restore
\* transfers control into func; control enters func once and never again,
\* never comes back to the restoring site, and the Task's end shows as the
\* status TaskFinished and in no other way.
C17_FrameContract ==
    /\ \A t \in Live :
          LET c == ctx[t]
              k == tasks[t]
          IN  /\ c.entry = "none" =>
                    k.last_stack_pointer = 0 /\ c.control = "new"
              /\ c.entry # "none" =>
                    /\ k.last_stack_pointer # 0
                    /\ k.last_stack_pointer \in bottom(k.stack)..top(k.stack)
              /\ c.entered <= 1
              /\ c.entered = 1 <=> c.control \in {"func", "switched", "finished"}
              /\ c.entered = 1 => c.inside = c.entry
              /\ c.returned = 0
              /\ c.control = "finished" <=> k.status = "TaskFinished"
              /\ c.control = "func" <=> k.status = "TaskRunning"
    /\ Cardinality({t \in Live : ctx[t].control = "func"}) <= 1

\* A Task that entered g once and finished, next to a Task switched away
\* inside f and a Task with a frame that has not run.
C17_Witness ==
    \E t, u, v \in Live :
        /\ ctx[t].control = "finished" /\ ctx[t].inside = "g"
        /\ ctx[t].entered = 1 /\ tasks[t].status = "TaskFinished"
        /\ ctx[u].control = "switched" /\ ctx[u].inside = "f"
        /\ ctx[v].control = "new" /\ ctx[v].entry = "f"
        /\ tasks[v].last_stack_pointer = top(tasks[v].stack) - 32

\* C18 (FairQueueSpec): when the same handle is in the queue more than once,
\* one call of remove takes out exactly its occurrence closest to the head:
\* the length drops by one, the later occurrences and all other elements
\* stay in their order.
C18_RemoveFirstOfDuplicates ==
    (pc = "remove" /\ Occ(rmPre, rmTask) >= 2)
        ~> /\ pc # "remove"
           /\ queue = WithoutFirst(rmPre, rmTask)
           /\ Len(queue) = Len(rmPre) - 1
           /\ Occ(queue, rmTask) = Occ(rmPre, rmTask) - 1

\* What is left of the pushed handles, in push order, once the handles of
\* outs have left: each takes away its oldest occurrence.
RECURSIVE MinusAll(_, _)
MinusAll(log, outs) ==
    IF outs = <<>> THEN log
    ELSE MinusAll(WithoutFirst(log, Head(outs)), Tail(outs))

Front(q) == SubSeq(q, 1, Len(q) - 1)

\* C19 (QueueSpec): under every interleaving of push, pop and remove the
\* queue holds the pushed handles, in push order, minus those popped or
\* removed, and every pop returns the oldest handle pushed and not yet
\* popped or removed.
C19_QueueContent ==
    /\ queue = MinusAll(pushLog, popLog \o rmLog)
    /\ (lastOp = "pop" /\ lastPop # None) =>
          /\ popLog # <<>>
          /\ lastPop = popLog[Len(popLog)]
          /\ lastPop = Head(MinusAll(pushLog, Front(popLog) \o rmLog))

\* Three pushes, a remove of the oldest, then a pop that returns the second
\* and leaves the third.
C19_Witness ==
    /\ lastOp = "pop"
    /\ lastPop # None
    /\ Len(pushLog) = 3
    /\ Len(rmLog) = 1
    /\ rmLog[1] = pushLog[1]
    /\ lastPop = pushLog[2]
    /\ queue = <<pushLog[3]>>
====
